---- MODULE Spec2Model ----
(***************************************************************************)
(* A model of the ArmorIQ customer SDK (armoriq_sdk): the client's         *)
(* invoke / get_intent_token / delegate / verify_token operations on       *)
(* intent tokens, and the Merkle helpers build_merkle_tree /               *)
(* verify_merkle_proof of the protocol test.                               *)
(* Nine specifications share the module's variables:                       *)
(*   Spec        ArmorIQClient.invoke on one token while the clock runs    *)
(*   SpecDelegate  delegate, then invoke with the delegated token          *)
(*   SpecVerify  ArmorIQClient.verify_token                                *)
(*   SpecToken   ArmorIQClient.get_intent_token called by several threads  *)
(*   SpecMerkle  hash_action, build_merkle_tree, verify_merkle_proof       *)
(*   SpecParams  invoke, delegate, verify_token and field assignment, with  *)
(*               the params mappings as objects in memory                  *)
(*   SpecExpiry  is_expired and time_until_expiry read while the clock runs *)
(*   SpecConstruct  ArmorIQClient.__init__                                  *)
(*   SpecPlan    armoriq.Client.execute_plan                                *)
(***************************************************************************)
EXTENDS Integers, Sequences, FiniteSets, TLC

VARIABLES
    now,        \* datetime.now().timestamp(), in whole ticks
    tok,        \* the IntentToken the application holds and passes to invoke
    last,       \* the most recent invoke call: its arguments and how it ended
    prev,       \* the request POSTed to {proxy_url}/invoke before the last one
    callers,    \* the threads calling get_intent_token: position and result
    posts,      \* the POSTs made to {backend}/iap/sdk/token, in order
    token_cache,\* ArmorIQClient._token_cache
    actions,    \* the list handed to build_merkle_tree
    tree,       \* what build_merkle_tree returned: (root, proof)
    check,      \* the most recent verify_merkle_proof call and its result
    deleg,      \* the most recent delegate call: its arguments and how it ended
    verdict,    \* the most recent verify_token call and what it returned
    objs,       \* the params mappings in memory: the caller's and the plan's
    assign,     \* the most recent assignment to a field of the token
    ctor,       \* the most recent ArmorIQClient(...) call and how it ended
    run,        \* the execute_plan call in progress: plan, position, results
    expiry      \* the most recent reading of is_expired and time_until_expiry

vars == <<now, tok, last, prev, callers, posts, token_cache, actions, tree, check,
          deleg, verdict, objs, assign, ctor, run, expiry>>

invokeVars == <<now, tok, last, prev>>
tokenVars  == <<callers, posts, token_cache>>
merkleVars == <<actions, tree, check>>
delegVars  == <<deleg, verdict>>
extraVars  == <<objs, assign, ctor, run, expiry>>

(***************************************************************************)
(* Bounds of the model.                                                    *)
(***************************************************************************)
MaxTime    == 2    \* the clock runs from 0 to MaxTime
MaxPosts   == 3    \* issuance requests kept in the log of backend requests
MaxActions == 5    \* length of the list given to build_merkle_tree
MaxDelegations == 1    \* delegate calls made in one run

(***************************************************************************)
(* Values.  None stands for Python's None; an optional value is a record   *)
(* [some, val] so that it compares with every other optional value.        *)
(***************************************************************************)
None      == [some |-> FALSE, val |-> <<>>]    \* no list
NoValue   == [some |-> FALSE, val |-> 0]       \* no number, no mapping
Some(v)   == [some |-> TRUE, val |-> v]
Truthy(o) == o.some /\ o.val # <<>>      \* Python truth of an optional list

ActionNames == {"A", "B", "C", "D"}

\* A caller's params mapping, reduced to the value of its one key.
ParamValues == {1, 2}

\* One step of a plan.  isdict is FALSE for a step that is not a mapping.
Step(a, p)  == [isdict |-> TRUE, action |-> a, params |-> p]
NonDictStep == [isdict |-> FALSE, action |-> "A", params |-> 1]

PlanABC   == <<Step("A", 1), Step("B", 1), Step("C", 1)>>
PlanBAB   == <<Step("B", 1), Step("A", 1), Step("B", 2)>>
PlanOdd   == <<NonDictStep, Step("A", 1)>>
PlanNone  == <<>>
Plans     == {PlanABC, PlanBAB, PlanOdd, PlanNone}

\* The proof CSRG-IAP attaches for step i of an n-step plan: the sibling
\* path of leaf i.  A one-leaf tree has the empty proof.
IapProof(i, n) == IF n = 1 THEN <<>> ELSE <<10 * n + i>>
IapStepProofs(steps) == [i \in 1..Len(steps) |-> IapProof(i, Len(steps))]

\* policy_validation.allowed_tools of a token; None when the backend sent
\* no policy_validation.
NoTools      == [some |-> FALSE, val |-> {}]
AllowedTools == {NoTools, Some({"A"})}

ExpiryTimes == {MaxTime - 1}

\* plan_hash as the backend reports it for a plan: one hash per plan.
PlanHash(steps) ==
    CASE steps = PlanABC -> "hash-ABC"
      [] steps = PlanBAB -> "hash-BAB"
      [] steps = PlanOdd -> "hash-Odd"
      [] OTHER           -> "hash-none"

\* The tokens get_intent_token builds (lines 450-473): the plan is kept in
\* raw_token, step_proofs is the backend's list or [] when it sent none.
IntentTokens ==
    { [ expires_at    |-> e,
        steps         |-> s,                   \* raw_token["plan"]["steps"]
        allowed_tools |-> a,                   \* policy_validation
        step_proofs   |-> IF h THEN IapStepProofs(s) ELSE <<>>,
        plan_hash     |-> PlanHash(s),
        signature     |-> "sig" ] :
      e \in ExpiryTimes, s \in Plans, a \in AllowedTools, h \in BOOLEAN }

StepProofs(token) == token.step_proofs

(***************************************************************************)
(* models.py: IntentToken.is_expired, time_until_expiry                    *)
(***************************************************************************)
\* Mutants of is_expired: a grace period of one tick; a validity remembered
\* from the previous, successful call with the token.
IsExpiredGrace(token, t) == t > token.expires_at + 1
IsExpiredRemembered(token, t) == t > token.expires_at /\ ~last.request.some

IsExpiredAtDeadline(token, t) == t >= token.expires_at

IsExpired(token, t) == t > token.expires_at

TimeUntilExpiry(token, t) == token.expires_at - t

(***************************************************************************)
(* client.py: ArmorIQClient.invoke                                         *)
(***************************************************************************)
\* Lines 542-546: iam_context["allowed_tools"], set when the token has a
\* policy_validation.
IamContext(token) == token.allowed_tools

\* Lines 607-612: the first step that is a mapping whose "action" is the
\* invoked action; None when there is none.  Indices are Python's, from 0.
StepIndexDefaultZero(steps, action) ==
    LET hits == {i \in 1..Len(steps) : steps[i].isdict /\ steps[i].action = action}
    IN  IF hits = {} THEN Some(0)
        ELSE Some((CHOOSE i \in hits : \A j \in hits : i <= j) - 1)

\* Mutant of lines 609-612: the loop has no break and the last match stays.
StepIndexLastMatch(steps, action) ==
    LET hits == {i \in 1..Len(steps) : steps[i].isdict /\ steps[i].action = action}
    IN  IF hits = {} THEN NoValue
        ELSE Some((CHOOSE i \in hits : \A j \in hits : i >= j) - 1)

StepIndex(steps, action) ==
    LET hits == {i \in 1..Len(steps) : steps[i].isdict /\ steps[i].action = action}
    IN  IF hits = {} THEN NoValue
        ELSE Some((CHOOSE i \in hits : \A j \in hits : i <= j) - 1)

\* Lines 623-633: the caller's proof when it is truthy, else the token's
\* step_proofs entry at the step's index when there is one, else unchanged.
SelectProof(merkle_proof, token, step_index) ==
    IF Truthy(merkle_proof) THEN merkle_proof
    ELSE IF Len(StepProofs(token)) > step_index
         THEN Some(StepProofs(token)[step_index + 1])
         ELSE merkle_proof

\* Lines 636-638: the X-CSRG-Proof header is set only for a truthy proof.
ProofHeader(proof) == IF Truthy(proof) THEN proof ELSE None

\* Line 642.
CsrgPath(step_index) == <<"/steps/[", step_index, "]/action">>

\* Line 660: json.dumps of a string, sorted keys, compact separators.
JsonDumps(value) == <<"\"", value, "\"">>

\* Line 661: hashlib.sha256(...).hexdigest(), taken as collision free.
Sha256(str) == [sha256 |-> str]

\* Lines 655-662: the digest of the leaf value at the path being verified.
ValueDigest(steps, step_index, action) ==
    LET leaf_value == IF step_index < Len(steps) /\ steps[step_index + 1].isdict
                      THEN steps[step_index + 1].action
                      ELSE action
    IN  Sha256(JsonDumps(leaf_value))

\* Mutant of lines 655-662: the digest is taken over the params of the call.
RequestDigestOverParams(action, token, params, merkle_proof, step_index) ==
    [ action        |-> action,
      params        |-> params,
      iam_context   |-> IamContext(token),
      payload_proof |-> merkle_proof,
      header_proof  |-> ProofHeader(SelectProof(merkle_proof, token, step_index)),
      csrg_path     |-> CsrgPath(step_index),
      value_digest  |-> Sha256(JsonDumps(params.val)) ]

\* Lines 557-572 and 575-662: the request POSTed to {proxy_url}/invoke.
\* payload_proof is payload["merkle_proof"], set before the proof is
\* selected; header_proof is X-CSRG-Proof.
Request(action, token, params, merkle_proof, step_index) ==
    [ action        |-> action,
      params        |-> params,
      iam_context   |-> IamContext(token),
      payload_proof |-> merkle_proof,
      header_proof  |-> ProofHeader(SelectProof(merkle_proof, token, step_index)),
      csrg_path     |-> CsrgPath(step_index),
      value_digest  |-> ValueDigest(token.steps, step_index, action) ]

\* What the proxy answers: an HTTP status, a JSON-RPC error in a 200 body,
\* or no answer at all (the transport failed).
Responses == {"200", "200-rpc-error", "401", "403", "404", "409", "500", "transport"}

\* The answers for which response.raise_for_status() (line 701) raises
\* HTTPStatusError, and e.response.status_code (line 761).
HttpErrors == {"401", "403", "404", "409", "500"}

StatusCode(response) ==
    CASE response = "401" -> 401
      [] response = "403" -> 403
      [] response = "404" -> 404
      [] response = "409" -> 409
      [] response = "500" -> 500
      [] OTHER            -> 200

\* Mutant of the error mapping: a 409 is reported like any other error status.
OutcomeGeneric(response) ==
    CASE response = "200"                -> "MCPInvocationResult"
      [] response \in {"401", "403"}     -> "InvalidTokenException"
      [] OTHER                           -> "MCPInvocationException"

\* Lines 731-793: how invoke ends for each answer.
Outcome(response) ==
    CASE response = "200"                -> "MCPInvocationResult"
      [] response \in {"401", "403"}     -> "InvalidTokenException"
      [] response = "409"                -> "IntentMismatchException"
      [] OTHER                           -> "MCPInvocationException"

\* The action, plan_hash and status_code attributes of the exception a call
\* raised; "" and 0 stand for None.  TokenExpiredException (526-530), the
\* local IntentMismatchException (615-619) and InvalidTokenException (776)
\* are raised with none of the three.
NoAttrs == [ action |-> "", plan_hash |-> "", status_code |-> 0 ]

\* Lines 760-793: the attributes given to the exception raised for an answer.
Raised(response, action, token) ==
    IF response \in HttpErrors
    THEN IF StatusCode(response) = 401 \/ StatusCode(response) = 403
         THEN NoAttrs
         ELSE IF StatusCode(response) = 409
         THEN [ action |-> action, plan_hash |-> token.plan_hash, status_code |-> 0 ]
         ELSE [ action |-> action, plan_hash |-> "",
                status_code |-> StatusCode(response) ]
    ELSE IF response = "200"
         THEN NoAttrs
         ELSE [ action |-> action, plan_hash |-> "", status_code |-> 0 ]

\* The request a call sent, or NoRequest when it raised before the POST.
NoRequest == [ some |-> FALSE, val |-> <<>> ]

NoCall == [ called |-> FALSE, action |-> "A", params |-> NoValue, proof |-> None,
            at |-> 0, outcome |-> "none", exc |-> NoAttrs, request |-> NoRequest ]

Call(action, params, proof, outcome, exc, request) ==
    [ called |-> TRUE, action |-> action, params |-> params, proof |-> proof,
      at |-> now, outcome |-> outcome, exc |-> exc, request |-> request ]

\* The most recent request sent before the call now being made.
PrevRequest == IF last.request.some THEN last.request ELSE prev

\* Lines 524-530: the expiry gate.
InvokeExpired(action, params, proof) ==
    /\ IsExpired(tok, now)
    /\ last' = Call(action, params, proof, "TokenExpiredException", NoAttrs, NoRequest)
    /\ prev' = PrevRequest
    /\ UNCHANGED <<now, tok>>

\* Lines 602-619: the plan gate.
InvokeNotInPlan(action, params, proof) ==
    /\ ~IsExpired(tok, now)
    /\ ~StepIndex(tok.steps, action).some
    /\ last' = Call(action, params, proof, "IntentMismatchException", NoAttrs, NoRequest)
    /\ prev' = PrevRequest
    /\ UNCHANGED <<now, tok>>

\* Lines 621-793: the request is sent and the proxy's answer mapped.
InvokeSend(action, params, proof, response) ==
    /\ ~IsExpired(tok, now)
    /\ StepIndex(tok.steps, action).some
    /\ last' = Call(action, params, proof, Outcome(response),
                    Raised(response, action, tok),
                    Some(Request(action, tok, params, proof,
                                 StepIndex(tok.steps, action).val)))
    /\ prev' = PrevRequest
    /\ UNCHANGED <<now, tok>>

CallerParams == {Some(p) : p \in ParamValues}
CallerProofs == {None, Some(<<99>>)}

\* The clock advances.
Tick ==
    /\ now < MaxTime
    /\ now' = now + 1
    /\ UNCHANGED <<tok, last, prev>>

\* The variables of the other specifications, at rest.
InvokeIdle == now = 0 /\ tok = <<>> /\ last = <<>> /\ prev = <<>>
TokenIdle  == callers = <<>> /\ posts = <<>> /\ token_cache = <<>>
MerkleIdle == actions = <<>> /\ tree = <<>> /\ check = <<>>
DelegIdle  == deleg = <<>> /\ verdict = <<>>
ExtraIdle  == objs = <<>> /\ assign = <<>> /\ ctor = <<>> /\ run = <<>> /\ expiry = <<>>

Init ==
    /\ now = 0
    /\ tok \in IntentTokens
    /\ last = NoCall
    /\ prev = NoRequest
    /\ TokenIdle
    /\ MerkleIdle
    /\ DelegIdle
    /\ ExtraIdle

\* One call of invoke is one of its three ways through the gates.
Next ==
    \/ \E action \in ActionNames, params \in CallerParams, proof \in CallerProofs :
         InvokeExpired(action, params, proof) /\ UNCHANGED <<tokenVars, merkleVars, delegVars, extraVars>>
    \/ \E action \in ActionNames, params \in CallerParams, proof \in CallerProofs :
         InvokeNotInPlan(action, params, proof) /\ UNCHANGED <<tokenVars, merkleVars, delegVars, extraVars>>
    \/ \E action \in ActionNames, params \in CallerParams, proof \in CallerProofs,
          response \in Responses :
         InvokeSend(action, params, proof, response) /\ UNCHANGED <<tokenVars, merkleVars, delegVars, extraVars>>
    \/ Tick /\ UNCHANGED <<tokenVars, merkleVars, delegVars, extraVars>>

Spec == Init /\ [][Next]_vars

(***************************************************************************)
(* Claims about invoke, checked under Spec.                                *)
(***************************************************************************)
\* The plan stored in the token has a step whose action name is a.
InPlan(a) == \E i \in 1..Len(tok.steps) : tok.steps[i].isdict /\ tok.steps[i].action = a

\* The requests in view: the last call's, and the one sent before it.
Requests == {r \in {last.request, prev} : r.some}

\* C1: a call made with a token whose expires_at is earlier than the time of
\* the call ends in TokenExpiredException and sends no request, whatever the
\* action, params and proof of the call and the plan of the token are.
C1_ExpiredTokenDenied ==
    (last.called /\ tok.expires_at < last.at)
        => (last.outcome = "TokenExpiredException" /\ ~last.request.some)

C1_Witness ==
    /\ last.called /\ tok.expires_at < last.at
    /\ InPlan(last.action) /\ last.proof.some /\ tok.step_proofs # <<>>
    /\ last.outcome = "TokenExpiredException"

C3_AlteredParamsChangeDigest ==
    (/\ tok.steps = PlanABC
     /\ prev.some /\ last.request.some
     /\ prev.val.action = "B" /\ last.request.val.action = "B"
     /\ prev.val.params = Some(PlanABC[2].params)
     /\ last.request.val.params # Some(PlanABC[2].params))
        => last.request.val.value_digest # prev.val.value_digest

\* C4 (as claimed): a call with an unexpired token for an action outside the
\* token's policy_validation.allowed_tools is denied and sends no request,
\* even when the action is a step of the plan.
C4_ActionOutsidePolicyDenied ==
    (/\ last.called /\ last.at <= tok.expires_at
     /\ tok.allowed_tools.some /\ last.action \notin tok.allowed_tools.val)
        => (~last.request.some /\ last.outcome # "MCPInvocationResult")

\* C5: on every call the gates run afresh and in order, and the first one to
\* fail ends the call: an expired token gives TokenExpiredException whether
\* or not the action is in the plan (and whatever an earlier call with the
\* token did), an unexpired token with an action outside the plan gives
\* IntentMismatchException, and in both cases nothing is sent; only a call
\* that passes both gates sends a request.
C5_GatesInOrderOnEveryCall ==
    [][ last' # last =>
          /\ last'.called /\ last'.at = now
          /\ (now > tok.expires_at)
                => (last'.outcome = "TokenExpiredException" /\ ~last'.request.some)
          /\ (now <= tok.expires_at /\ ~InPlan(last'.action))
                => (last'.outcome = "IntentMismatchException" /\ ~last'.request.some)
          /\ (now <= tok.expires_at /\ InPlan(last'.action))
                => last'.request.some ]_vars

\* An expired token is refused for an action outside the plan, after an
\* earlier call with the same token was sent to the proxy and succeeded.
C5_Witness ==
    /\ last.called /\ tok.expires_at < last.at /\ ~InPlan(last.action)
    /\ last.outcome = "TokenExpiredException"
    /\ prev.some /\ tok.steps # PlanNone

\* C26: every request sent carries the path '/steps/[i]/action' of a step i
\* of the plan, counted from 0, that is a mapping naming the invoked action,
\* and of the first such step; with no proof from the caller, the proof sent
\* is the one the token holds for that first step.
C26_PathNamesFirstMatchingStep ==
    \A r \in Requests :
       \E i \in 0..(Len(tok.steps) - 1) :
          /\ r.val.csrg_path = <<"/steps/[", i, "]/action">>
          /\ tok.steps[i + 1].isdict /\ tok.steps[i + 1].action = r.val.action
          /\ \A j \in 0..(i - 1) :
               ~(tok.steps[j + 1].isdict /\ tok.steps[j + 1].action = r.val.action)
          /\ (~r.val.payload_proof.some /\ Len(tok.step_proofs) > i)
                => r.val.header_proof = Some(tok.step_proofs[i + 1])

\* B was invoked under the plan [B, A, B] after A, with no proof from the
\* caller.
C26_Witness ==
    /\ tok.steps = PlanBAB /\ tok.step_proofs # <<>>
    /\ last.request.some /\ last.request.val.action = "B"
    /\ ~last.proof.some
    /\ last.request.val.csrg_path = <<"/steps/[", 0, "]/action">>
    /\ last.request.val.header_proof = Some(<<31>>)
    /\ prev.some /\ prev.val.action = "A"

\* C27: two requests for the same action under the same token, sent by calls
\* that gave different params and no proof, carry the same X-CSRG-Path, the
\* same X-CSRG-Value-Digest and the same X-CSRG-Proof.
C27_HeadersIgnoreParams ==
    (/\ prev.some /\ last.request.some
     /\ prev.val.action = last.request.val.action
     /\ prev.val.params # last.request.val.params
     /\ ~prev.val.payload_proof.some /\ ~last.request.val.payload_proof.some)
        => /\ last.request.val.csrg_path = prev.val.csrg_path
           /\ last.request.val.value_digest = prev.val.value_digest
           /\ last.request.val.header_proof = prev.val.header_proof

\* B was invoked twice under [A, B, C], with params 1 and then 2, and both
\* requests carry the path of step 1 and the token's proof for it.
C27_Witness ==
    /\ tok.steps = PlanABC /\ tok.step_proofs # <<>>
    /\ prev.some /\ last.request.some
    /\ prev.val.action = "B" /\ last.request.val.action = "B"
    /\ prev.val.params = Some(1) /\ last.request.val.params = Some(2)
    /\ ~prev.val.payload_proof.some /\ ~last.request.val.payload_proof.some
    /\ last.request.val.csrg_path = <<"/steps/[", 1, "]/action">>
    /\ last.request.val.header_proof = Some(<<32>>)

\* C28 (as claimed): every request sent carries a Merkle proof in
\* X-CSRG-Proof; a call that gives no proof, under a token that holds no
\* proof at the index of the resolved step, sends no request.
C28_NoRequestWithoutProof ==
    /\ \A r \in Requests : r.val.header_proof.some
    /\ (/\ last.called /\ last.at <= tok.expires_at /\ InPlan(last.action)
        /\ ~last.proof.some
        /\ \A i \in 1..Len(tok.steps) :
             (tok.steps[i].isdict /\ tok.steps[i].action = last.action)
                => Len(tok.step_proofs) < i)
          => ~last.request.some

\* C29 (as claimed): in every request sent, the 'merkle_proof' of the
\* payload and the X-CSRG-Proof header are the same proof, whether the
\* caller gave it or it was taken from the token's step_proofs.
C29_PayloadProofIsHeaderProof ==
    \A r \in Requests : r.val.payload_proof = r.val.header_proof

\* C18: when the proxy rejects the request of a call, invoke raises the
\* exception of that rejection and returns no result: InvalidTokenException for 401 and
\* 403, IntentMismatchException with the action and the token's plan_hash
\* for 409, MCPInvocationException with the status code for every other
\* error status.
C18_ProxyRejectionKeepsItsReason ==
    [][ \A response \in HttpErrors :
          InvokeSend(last'.action, last'.params, last'.proof, response) =>
            /\ last'.outcome # "MCPInvocationResult"
            /\ response \in {"401", "403"} => last'.outcome = "InvalidTokenException"
            /\ response = "409" =>
                  /\ last'.outcome = "IntentMismatchException"
                  /\ last'.exc.action = last'.action
                  /\ last'.exc.plan_hash = tok.plan_hash
            /\ response = "404" =>
                  /\ last'.outcome = "MCPInvocationException"
                  /\ last'.exc.status_code = 404
            /\ response = "500" =>
                  /\ last'.outcome = "MCPInvocationException"
                  /\ last'.exc.status_code = 500 ]_vars

\* A request for B was sent and rejected with 409, after an earlier request.
C18_Witness ==
    /\ last.called /\ last.request.some /\ last.action = "B"
    /\ last.outcome = "IntentMismatchException"
    /\ last.exc.action = "B" /\ last.exc.plan_hash = tok.plan_hash
    /\ tok.plan_hash = "hash-BAB"
    /\ prev.some

(***************************************************************************)
(* test_mcp_protocol_complete.py: hash_action, build_merkle_tree,          *)
(* verify_merkle_proof.                                                    *)
(*                                                                         *)
(* A string is a sequence of numbers.  An action is a mapping, written as  *)
(* the sequence of its <<key, value>> items in insertion order.            *)
(***************************************************************************)
KeyAction    == 1     \* the key "action"
KeyArguments == 2     \* the key "arguments"

Check_Eligibility    == <<<<KeyAction, 1>>, <<KeyArguments, 1>>>>
Check_Eligibility_KO == <<<<KeyArguments, 1>>, <<KeyAction, 1>>>>  \* other key order
Check_Eligibility_2  == <<<<KeyAction, 1>>, <<KeyArguments, 2>>>>  \* other arguments
ActionDicts == {Check_Eligibility, Check_Eligibility_KO, Check_Eligibility_2}

\* Two mappings are equal when they hold the same items.
Items(d) == {d[i] : i \in DOMAIN d}

\* json.dumps(action, sort_keys=True): the items in key order, each key
\* followed by its value.
RECURSIVE DumpItems(_)
DumpItems(items) ==
    IF items = {} THEN <<>>
    ELSE LET first == CHOOSE kv \in items : \A o \in items : kv[1] <= o[1]
         IN  <<first[1], first[2]>> \o DumpItems(items \ {first})

\* Mutant of json.dumps(..., sort_keys=True): only the "action" item is
\* serialized, the arguments are left out of the leaf.
JsonDumpsActionOnly(action) ==
    DumpItems({kv \in Items(action) : kv[1] = KeyAction})

\* Mutant of json.dumps(..., sort_keys=True): sort_keys is left out and the
\* items are written in insertion order.
JsonDumpsInsertionOrder(action) ==
    [k \in 1..(2 * Len(action)) |-> action[(k + 1) \div 2][2 - (k % 2)]]

JsonDumpsSorted(action) == DumpItems(Items(action))

\* hashlib.sha256(s.encode()).hexdigest(), taken as collision free: the
\* digest holds the string and its length, so that the concatenation of two
\* digests determines both, as it does for two hex strings of 64 characters.
HexDigest(str) == <<Len(str)>> \o str

\* Lines 54-57.
hash_action(action) == HexDigest(JsonDumpsSorted(action))

\* An entry of a proof.  A field that is absent from the mapping is None.
NoField == [some |-> FALSE, val |-> ""]
Node(sibling, position) == [sibling_hash |-> Some(sibling), position |-> Some(position)]

\* Mutant of lines 86-91: the position names the side of the target, not of
\* the sibling.
ProofNodeOwnSide(target_index, i, left, right) ==
    Node(IF target_index = i THEN right ELSE left,
         IF target_index = i THEN "left" ELSE "right")

\* Lines 86-91: the sibling of the target in the pair (i, i + 1) and the side
\* it stands on.
ProofNode(target_index, i, left, right) ==
    Node(IF target_index = i THEN right ELSE left,
         IF target_index = i THEN "right" ELSE "left")

\* Lines 78-98: one pass of the for loop over a level, from pair i on.
RECURSIVE BuildLevel(_, _, _, _, _)
BuildLevel(current_level, i, next_level, proof, target_index) ==
    IF i >= Len(current_level)
    THEN [level |-> next_level, proof |-> proof, target_index |-> target_index]
    ELSE LET left   == current_level[i + 1]
             paired == i + 1 < Len(current_level)
             right  == IF paired THEN current_level[i + 2] ELSE left
             hit    == paired /\ i <= target_index /\ target_index < i + 2
             parent == HexDigest(left \o right)
         IN  BuildLevel(current_level, i + 2, Append(next_level, parent),
                        IF hit THEN Append(proof, ProofNode(target_index, i, left, right))
                               ELSE proof,
                        IF hit THEN i \div 2 ELSE target_index)

\* Lines 76-102: the while loop over the levels.
RECURSIVE BuildLevels(_, _, _)
BuildLevels(current_level, proof, target_index) ==
    IF Len(current_level) > 1
    THEN LET pass == BuildLevel(current_level, 0, <<>>, proof, target_index)
         IN  BuildLevels(pass.level, pass.proof, pass.target_index)
    ELSE [root |-> current_level[1], proof |-> proof]

\* Lines 59-102: (root, proof_for_first_action); the root of no actions is
\* None, written <<>>.
build_merkle_tree(acts) ==
    LET leaf_hashes == [k \in 1..Len(acts) |-> hash_action(acts[k])]
    IN  IF acts = <<>> THEN [root |-> <<>>, proof |-> <<>>]
        ELSE IF Len(leaf_hashes) = 1 THEN [root |-> leaf_hashes[1], proof |-> <<>>]
        ELSE BuildLevels(leaf_hashes, <<>>, 0)

\* Lines 106-121: the climb from the leaf; "KeyError" when an entry lacks a
\* field the loop reads.
RECURSIVE Climb(_, _, _)
Climb(current, proof, k) ==
    IF k > Len(proof) THEN Some(current)
    ELSE LET node == proof[k]
         IN  IF ~node.sibling_hash.some \/ ~node.position.some THEN None
             ELSE LET sibling  == node.sibling_hash.val
                      combined == IF node.position.val = "right"
                                  THEN current \o sibling
                                  ELSE sibling \o current
                  IN  Climb(HexDigest(combined), proof, k + 1)

\* Lines 104-121.
verify_merkle_proof(leaf_hash, proof, root) ==
    LET top == Climb(leaf_hash, proof, 1)
    IN  IF ~top.some THEN "KeyError"
        ELSE IF top.val = root THEN "True" ELSE "False"

\* The proofs handed to verify_merkle_proof: the one build_merkle_tree
\* returned, that proof cut short, extended, or with one entry's position
\* changed or one field removed, and one-entry proofs naming the first leaf
\* as the sibling.
Positions == {"left", "right", "up"}

ProofInputs ==
    LET p == tree.proof
        h == hash_action(Check_Eligibility)
    IN  {p, Append(p, Node(h, "right"))}
        \cup {SubSeq(p, 1, Len(p) - 1) : k \in {1} \cap DOMAIN p}
        \cup {[p EXCEPT ![k].position = Some(t)] : k \in DOMAIN p, t \in Positions}
        \cup {[p EXCEPT ![k].position = NoField] : k \in DOMAIN p}
        \cup {[p EXCEPT ![k].sibling_hash = None] : k \in DOMAIN p}
        \cup {<<Node(hash_action(actions[1]), t)>> : t \in IF Len(actions) >= 2 THEN Positions ELSE {}}

NoCheck == [called |-> FALSE, leaf |-> <<>>, proof |-> <<>>, result |-> "none"]

\* Line 197: the tree is built over the plan's actions.
Build ==
    /\ ~tree.built
    /\ tree' = [built |-> TRUE] @@ build_merkle_tree(actions)
    /\ UNCHANGED <<actions, check>>

\* Lines 203-206: a leaf is hashed and verified against the root.
Verify ==
    /\ tree.built
    /\ \E leaf \in ActionDicts, proof \in ProofInputs :
         check' = [called |-> TRUE, leaf |-> leaf, proof |-> proof,
                   result |-> verify_merkle_proof(hash_action(leaf), proof, tree.root)]
    /\ UNCHANGED <<actions, tree>>

ActionLists == UNION {[1..n -> ActionDicts] : n \in 0..MaxActions}

InitMerkle ==
    /\ actions \in ActionLists
    /\ tree = [built |-> FALSE, root |-> <<>>, proof |-> <<>>]
    /\ check = NoCheck
    /\ InvokeIdle
    /\ TokenIdle
    /\ DelegIdle
    /\ ExtraIdle

NextMerkle ==
    \/ Build /\ UNCHANGED <<invokeVars, tokenVars, delegVars, extraVars>>
    \/ Verify /\ UNCHANGED <<invokeVars, tokenVars, delegVars, extraVars>>

SpecMerkle == InitMerkle /\ [][NextMerkle]_vars

(***************************************************************************)
(* Claims about the Merkle helpers, checked under SpecMerkle.              *)
(***************************************************************************)
\* The number of entries of a proof for a tree of n leaves: its height.
RECURSIVE Height(_)
Height(n) == IF n <= 1 THEN 0 ELSE 1 + Height((n + 1) \div 2)

\* C6: for every non-empty list of actions, of any length, the proof that
\* build_merkle_tree returns (the first action's) verifies with the root it
\* returns and the hash of the first action.
C6_BuiltProofVerifies ==
    (/\ check.called /\ actions # <<>>
     /\ Items(check.leaf) = Items(actions[1])
     /\ check.proof = tree.proof)
        => check.result = "True"

\* A list whose length is odd at two levels has been built and verified.
C6_Witness ==
    /\ check.called /\ Len(actions) = 5
    /\ check.leaf = actions[1] /\ check.proof = tree.proof
    /\ Len(tree.proof) = 3
    /\ check.result = "True"

\* C7: a leaf that differs from the committed first leaf, hashed and
\* verified against the unmodified proof and root, gives false.
C7_OtherLeafFails ==
    (/\ check.called /\ actions # <<>>
     /\ Items(check.leaf) # Items(actions[1])
     /\ check.proof = tree.proof)
        => check.result = "False"

C7_Witness ==
    /\ check.called /\ Len(actions) >= 3
    /\ Items(check.leaf) # Items(actions[1])
    /\ check.leaf \in {actions[k] : k \in 2..Len(actions)}
    /\ check.proof = tree.proof
    /\ check.result = "False"

\* client.py lines 657-658: step_obj.get("action", action), the leaf value
\* of a step that is a mapping.
LeafValue(step_obj, action) ==
    LET hits == {k \in DOMAIN step_obj : step_obj[k][1] = KeyAction}
    IN  IF hits = {} THEN action ELSE step_obj[CHOOSE k \in hits : TRUE][2]

\* client.py lines 660-662: the value digest invoke computes for a step.
StepValueDigest(step_obj, action) == Sha256(JsonDumps(LeafValue(step_obj, action)))

\* The mapping read back from canonical bytes: its items in the order written.
JsonLoads(str) == [k \in 1..(Len(str) \div 2) |-> <<str[2 * k - 1], str[2 * k]>>]

\* C23: two actions of the plan that are equal as mappings, whatever the
\* order in which their keys were inserted, have the same canonical bytes,
\* the same leaf hash and the same value digest in invoke; serializing what
\* the canonical bytes hold gives the same bytes again; and a leaf verifies
\* against the tree built over its reordered twin.
C23_KeyOrderDoesNotMatter ==
    /\ \A i, j \in DOMAIN actions :
         Items(actions[i]) = Items(actions[j]) =>
            /\ JsonDumpsSorted(actions[i]) = JsonDumpsSorted(actions[j])
            /\ hash_action(actions[i]) = hash_action(actions[j])
            /\ StepValueDigest(actions[i], 0) = StepValueDigest(actions[j], 0)
    /\ \A i \in DOMAIN actions :
         /\ JsonDumpsSorted(actions[i]) = <<KeyAction, 1, KeyArguments, actions[i][CHOOSE k \in 1..2 : actions[i][k][1] = KeyArguments][2]>>
         /\ JsonDumpsSorted(JsonLoads(JsonDumpsSorted(actions[i]))) = JsonDumpsSorted(actions[i])
    /\ (/\ check.called /\ actions # <<>>
        /\ check.leaf # actions[1] /\ Items(check.leaf) = Items(actions[1])
        /\ check.proof = tree.proof)
          => check.result = "True"

\* The plan holds the same action in both key orders, and the one was
\* verified against the tree built with the other as first leaf.
C23_Witness ==
    /\ Len(actions) >= 2
    /\ actions[1] = Check_Eligibility_KO /\ actions[2] = Check_Eligibility
    /\ tree.built /\ check.called
    /\ check.leaf = Check_Eligibility /\ check.proof = tree.proof
    /\ check.result = "True"

\* A proof is malformed when its length is not the height of the tree, or an
\* entry lacks a field or carries a position that is neither side.
Malformed(proof) ==
    \/ Len(proof) # Height(Len(actions))
    \/ \E k \in DOMAIN proof :
         \/ ~proof[k].sibling_hash.some
         \/ ~proof[k].position.some
         \/ proof[k].position.val \notin {"left", "right"}

\* C8 (as claimed): verification of a malformed proof returns false: it
\* neither raises nor accepts.
C8_MalformedProofIsFalse ==
    (check.called /\ actions # <<>> /\ Malformed(check.proof))
        => check.result = "False"

(***************************************************************************)
(* client.py: ArmorIQClient.get_intent_token, called by the threads of an  *)
(* application that share one client.  A call blocks in http_client.post;  *)
(* other threads run meanwhile.                                            *)
(***************************************************************************)
Threads    == {"t1", "t2"}

PlanIds    == {"h1", "h2"}      \* the plan of the plan_capture argument
Validities == {1}               \* validity_seconds
Keys       == [plan : PlanIds, validity : Validities]

\* What the backend answers to POST /iap/sdk/token: success, a body whose
\* "success" is false or absent, an HTTP error status, a transport error, a
\* body IntentToken cannot be built from; or the call is cancelled.
BackendResponses ==
    {"success", "no-success", "http-error", "transport", "bad-token", "cancelled"}

NoToken == [issued |-> FALSE, token_id |-> 0, expires_at |-> 0]

IdleCaller == [pc |-> "idle", key |-> [plan |-> "h1", validity |-> 1],
               post |-> 0, outcome |-> "none", token |-> NoToken]

\* Mutant of the issuance mapping: a body that reports success but cannot be
\* made into a token is returned as if it were one.
IssueOutcomeLenient(response) ==
    CASE response \in {"success", "bad-token"} -> "IntentToken"
      [] response = "cancelled"               -> "KeyboardInterrupt"
      [] OTHER                                -> "InvalidTokenException"

\* Lines 443-483: how the call ends for each answer.
IssueOutcome(response) ==
    CASE response = "success"   -> "IntentToken"
      [] response = "cancelled" -> "KeyboardInterrupt"
      [] OTHER                  -> "InvalidTokenException"

\* Lines 417-439: the payload is built and POSTed to the backend.
GetTokenPost(t, key) ==
    /\ callers[t].pc = "idle"
    /\ Len(posts) < MaxPosts
    /\ posts' = Append(posts, [key |-> key, by |-> t, at |-> now,
                               status |-> "pending", expires_at |-> 0])
    /\ callers' = [callers EXCEPT ![t] =
                     [pc |-> "posted", key |-> key, post |-> Len(posts) + 1,
                      outcome |-> "none", token |-> NoToken]]
    /\ UNCHANGED <<now, token_cache>>

\* Mutant of lines 440-483: the call records its key in _token_cache when it
\* posts and clears the entry only when a token comes back.
GetTokenReturnKeepsEntry(t, response) ==
    /\ callers[t].pc = "posted"
    /\ LET key   == callers[t].key
           token == IF response = "success"
                    THEN [issued |-> TRUE, token_id |-> callers[t].post,
                          expires_at |-> now + key.validity]
                    ELSE NoToken
       IN  /\ callers' = [callers EXCEPT ![t].pc = "idle",
                                         ![t].outcome = IssueOutcome(response),
                                         ![t].token = token]
           /\ posts' = [posts EXCEPT
                          ![callers[t].post].status =
                              IF response = "success" THEN "issued"
                              ELSE IF response = "cancelled" THEN "cancelled"
                              ELSE "failed",
                          ![callers[t].post].expires_at = token.expires_at]
           /\ token_cache' = IF response = "success" THEN token_cache
                             ELSE [k \in DOMAIN token_cache \cup {key} |-> "pending"]
    /\ UNCHANGED now

\* Lines 440-483: the answer arrives; the token is built from it and
\* returned, or an exception is raised.  _token_cache is not touched.
GetTokenReturn(t, response) ==
    /\ callers[t].pc = "posted"
    /\ LET key   == callers[t].key
           token == IF response = "success"
                    THEN [issued |-> TRUE, token_id |-> callers[t].post,
                          expires_at |-> now + key.validity]
                    ELSE NoToken
       IN  /\ callers' = [callers EXCEPT ![t].pc = "idle",
                                         ![t].outcome = IssueOutcome(response),
                                         ![t].token = token]
           /\ posts' = [posts EXCEPT
                          ![callers[t].post].status =
                              IF response = "success" THEN "issued"
                              ELSE IF response = "cancelled" THEN "cancelled"
                              ELSE "failed",
                          ![callers[t].post].expires_at = token.expires_at]
    /\ UNCHANGED <<now, token_cache>>

InitToken ==
    /\ now = 0
    /\ callers = [t \in Threads |-> IdleCaller]
    /\ posts = <<>>
    /\ token_cache = <<>>
    /\ tok = <<>> /\ last = <<>> /\ prev = <<>>
    /\ MerkleIdle
    /\ DelegIdle
    /\ ExtraIdle

NextToken ==
    \/ \E t \in Threads, key \in Keys :
         GetTokenPost(t, key) /\ UNCHANGED <<tok, last, prev, merkleVars, delegVars, extraVars>>
    \/ \E t \in Threads, response \in BackendResponses :
         GetTokenReturn(t, response) /\ UNCHANGED <<tok, last, prev, merkleVars, delegVars, extraVars>>
    \/ Tick /\ UNCHANGED <<tokenVars, merkleVars, delegVars, extraVars>>

SpecToken == InitToken /\ [][NextToken]_vars

(***************************************************************************)
(* Claims about get_intent_token, checked under SpecToken.                 *)
(***************************************************************************)
\* C9 (as claimed): while an issuance for a plan and validity is in flight,
\* or the token it produced is unexpired, no second issuance request for the
\* same plan and validity is sent to the backend.
C9_OneIssuancePerKey ==
    \A i, j \in DOMAIN posts :
        (i < j /\ posts[i].key = posts[j].key)
            => /\ ~(posts[i].status = "pending")
               /\ ~(posts[i].status = "issued" /\ posts[j].at <= posts[i].expires_at)

\* C10: when an issuance attempt fails or is cancelled, its caller gets
\* the exception and is free again, the token cache holds no entry for the
\* key, and a caller that is idle can always start a new attempt for the key,
\* which is a fresh request of its own.
C10_FailureLeavesNoEntry ==
    /\ \A i \in DOMAIN posts :
         posts[i].status \in {"failed", "cancelled"}
            => /\ posts[i].key \notin DOMAIN token_cache
               /\ callers[posts[i].by].post = i
                    => /\ callers[posts[i].by].pc = "idle"
                       /\ ~callers[posts[i].by].token.issued
                       /\ posts[i].status = "failed"
                            => callers[posts[i].by].outcome = "InvalidTokenException"
    /\ \A t \in Threads :
         /\ callers[t].pc = "posted"
              => /\ posts[callers[t].post].by = t
                 /\ posts[callers[t].post].status = "pending"
         /\ (callers[t].pc = "idle" /\ Len(posts) < MaxPosts)
              => \A key \in Keys : ENABLED GetTokenPost(t, key)

\* After a failed attempt, the same caller has posted a new request for the
\* same key while another caller's request for that key was in flight.
C10_Witness ==
    \E i, j \in DOMAIN posts :
        /\ i < j /\ posts[i].key = posts[j].key /\ posts[i].by = posts[j].by
        /\ posts[i].status = "failed"
        /\ callers[posts[i].by].outcome = "InvalidTokenException"
        /\ \E k \in DOMAIN posts : k < i /\ posts[k].key = posts[i].key

ParentTokens ==
    LET issued == {t \in IntentTokens : t.steps = PlanABC}
    IN  issued \cup {[t EXCEPT !.signature = ""] : t \in issued}

\* The allowed_actions argument: None (the default), [], or a list.
AllowedActions == {None, Some(<<>>), Some(<<"B">>), Some(<<"B", "D">>)}

\* The validity_seconds argument: within the parent's validity at time 0, or
\* beyond it at every time.
DelegValidities == {1, MaxTime + 1}

\* Lines 847-868: the body POSTed to {iap_endpoint}/delegation/create.  The
\* "allowed_actions" key is set only for a truthy argument.
DelegationPayload(intent_token, validity_seconds, allowed_actions) ==
    [ token               |-> intent_token,
      delegate_public_key |-> "pk",
      validity_seconds    |-> validity_seconds,
      allowed_actions     |-> IF Truthy(allowed_actions) THEN allowed_actions ELSE None ]

\* The "delegation" object of a 200 answer, reduced to the keys the client
\* reads.  NoData has none of them.
NoData == [ plan_hash |-> NoField, expires_at |-> NoValue, step_proofs |-> None,
            signature |-> NoField, policy_validation |-> NoTools ]

\* The object with every key present: the parent's plan_hash and step_proofs,
\* the requested expiry, a signature, the requested actions as allowed_tools.
FullData(payload) ==
    [ plan_hash         |-> Some(payload.token.plan_hash),
      expires_at        |-> Some(now + payload.validity_seconds),
      step_proofs       |-> Some(payload.token.step_proofs),
      signature         |-> Some("sig-delegated"),
      policy_validation |-> IF payload.allowed_actions.some
                            THEN Some({payload.allowed_actions.val[i] :
                                          i \in 1..Len(payload.allowed_actions.val)})
                            ELSE NoTools ]

\* The delegation objects CSRG-IAP may answer with: the full one, the full one
\* with one key absent or with another plan_hash, and the one with no key.
DelegationData(payload) ==
    { FullData(payload),
      NoData,
      [FullData(payload) EXCEPT !.plan_hash = NoField],
      [FullData(payload) EXCEPT !.plan_hash = Some("hash-other")],
      [FullData(payload) EXCEPT !.expires_at = NoValue],
      [FullData(payload) EXCEPT !.step_proofs = None],
      [FullData(payload) EXCEPT !.signature = NoField] }

\* What CSRG-IAP answers: a delegation, a 200 body without one, a 200 body
\* whose delegation cannot be made into an IntentToken, an HTTP error status,
\* or nothing (the transport failed).
IapAnswers(payload) ==
    {[kind |-> "delegation", data |-> d] : d \in DelegationData(payload)}
        \cup {[kind |-> k, data |-> NoData] :
                 k \in {"no-delegation", "bad-delegation", "http-error", "transport"}}

\* Lines 891-905: the IntentToken built from the delegation object.  Its
\* raw_token is {"token": data}: it has no "plan", so invoke reads no steps.
DelegatedToken(intent_token, data) ==
    [ expires_at    |-> IF data.expires_at.some THEN data.expires_at.val ELSE 0,
      steps         |-> <<>>,
      allowed_tools |-> data.policy_validation,
      step_proofs   |-> IF data.step_proofs.some THEN data.step_proofs.val ELSE <<>>,
      plan_hash     |-> IF data.plan_hash.some THEN data.plan_hash.val
                        ELSE intent_token.plan_hash,
      signature     |-> IF data.signature.some THEN data.signature.val ELSE "" ]

\* Lines 877-930: how delegate ends for each answer.  DelegationException
\* takes (message, target_agent) only (exceptions.py 85-87), and both raise
\* statements that pass delegation_id fail with TypeError: the one at 884 is
\* inside the try and is re-raised as DelegationException by the handler at
\* 928, the one at 923 is inside the HTTPStatusError handler and escapes.
DelegateOutcome(kind) ==
    CASE kind = "delegation" -> "DelegationResult"
      [] kind = "http-error" -> "TypeError"
      [] OTHER               -> "DelegationException"

NoResult == [ some |-> FALSE, val |-> <<>> ]

NoDelegation ==
    [ called |-> FALSE, n |-> 0, intent_token |-> <<>>, allowed_actions |-> None,
      validity_seconds |-> 0, at |-> 0, request |-> NoRequest, answer |-> "none",
      outcome |-> "none", result |-> NoResult, handed |-> FALSE ]

\* Lines 839-932: one call of delegate with the held token.  Nothing is
\* checked before the POST.
Delegate(allowed_actions, validity_seconds, answer) ==
    /\ deleg.n < MaxDelegations
    /\ deleg' =
         [ called           |-> TRUE,
           n                |-> deleg.n + 1,
           intent_token     |-> tok,
           allowed_actions  |-> allowed_actions,
           validity_seconds |-> validity_seconds,
           at               |-> now,
           request          |-> Some(DelegationPayload(tok, validity_seconds,
                                                       allowed_actions)),
           answer           |-> answer.kind,
           outcome          |-> DelegateOutcome(answer.kind),
           result           |-> IF DelegateOutcome(answer.kind) = "DelegationResult"
                                THEN Some(DelegatedToken(tok, answer.data))
                                ELSE NoResult,
           handed           |-> FALSE ]
    /\ UNCHANGED <<now, tok, last, prev>>

\* examples/loan_delegation_workflow.py 223-268: the delegated token of the
\* result is given to the delegate agent, which has made no call yet.
Handover ==
    /\ deleg.result.some
    /\ ~deleg.handed
    /\ tok' = deleg.result.val
    /\ deleg' = [deleg EXCEPT !.handed = TRUE]
    /\ last' = NoCall
    /\ prev' = NoRequest
    /\ UNCHANGED now

\* What the agents call invoke with under SpecDelegate.
DelegActions   == {"B", "D"}
DelegParams    == {Some(1)}
DelegProofs    == {None}
DelegResponses == {"200", "409"}

InitDelegate ==
    /\ now = 0
    /\ tok \in ParentTokens
    /\ last = NoCall
    /\ prev = NoRequest
    /\ deleg = NoDelegation
    /\ verdict = <<>>
    /\ ExtraIdle
    /\ TokenIdle
    /\ MerkleIdle

NextDelegate ==
    \/ \E allowed_actions \in AllowedActions, validity_seconds \in DelegValidities :
         \E answer \in IapAnswers(DelegationPayload(tok, validity_seconds, allowed_actions)) :
            Delegate(allowed_actions, validity_seconds, answer)
               /\ UNCHANGED <<tokenVars, merkleVars, verdict, extraVars>>
    \/ Handover /\ UNCHANGED <<tokenVars, merkleVars, verdict, extraVars>>
    \/ \E action \in DelegActions, params \in DelegParams, proof \in DelegProofs :
         InvokeExpired(action, params, proof) /\ UNCHANGED <<tokenVars, merkleVars, delegVars, extraVars>>
    \/ \E action \in DelegActions, params \in DelegParams, proof \in DelegProofs :
         InvokeNotInPlan(action, params, proof) /\ UNCHANGED <<tokenVars, merkleVars, delegVars, extraVars>>
    \/ \E action \in DelegActions, params \in DelegParams, proof \in DelegProofs,
          response \in DelegResponses :
         InvokeSend(action, params, proof, response) /\ UNCHANGED <<tokenVars, merkleVars, delegVars, extraVars>>
    \/ Tick /\ UNCHANGED <<tokenVars, merkleVars, delegVars, extraVars>>

SpecDelegate == InitDelegate /\ [][NextDelegate]_vars

(***************************************************************************)
(* Claims about delegate, checked under SpecDelegate.                      *)
(***************************************************************************)
\* The actions a token allows: the actions of its plan's steps and the
\* allowed_tools of its policy_validation.
TokenActions(token) ==
    {token.steps[i].action : i \in {j \in 1..Len(token.steps) : token.steps[j].isdict}}
        \cup token.allowed_tools.val

\* The actions named in an allowed_actions argument.
Requested(allowed_actions) ==
    {allowed_actions.val[i] : i \in 1..Len(allowed_actions.val)}

\* C11 (as claimed): a delegate call whose allowed_actions names an action
\* that is not among the parent token's actions fails at delegation time: it
\* raises and yields no delegated token.
C11_ScopeViolationFailsAtDelegation ==
    (/\ deleg.called
     /\ ~(Requested(deleg.allowed_actions) \subseteq TokenActions(deleg.intent_token)))
        => (deleg.outcome # "DelegationResult" /\ ~deleg.result.some)

\* C12 (as claimed): a delegate call with an empty allowed_actions list is a
\* hard error: it raises, and no delegation request goes out for it.
C12_EmptyScopeIsHardError ==
    (deleg.called /\ deleg.allowed_actions = Some(<<>>))
        => (deleg.outcome # "DelegationResult" /\ ~deleg.request.some)

\* C13 (as claimed): the delegated token of every DelegationResult expires no
\* later than the parent token, and a call whose validity_seconds reaches
\* past the parent's expiry returns no DelegationResult.
C13_DelegatedExpiryWithinParent ==
    /\ deleg.result.some
          => deleg.result.val.expires_at <= deleg.intent_token.expires_at
    /\ (deleg.called
        /\ deleg.at + deleg.validity_seconds > deleg.intent_token.expires_at)
          => deleg.outcome # "DelegationResult"

\* C14 (as claimed): a delegate call with a parent token that is expired or
\* has no signature raises, sends no delegation request and returns no
\* DelegationResult.
C14_UnverifiedParentNotDelegated ==
    (/\ deleg.called
     /\ \/ deleg.at > deleg.intent_token.expires_at
        \/ deleg.intent_token.signature = "")
        => /\ deleg.outcome # "DelegationResult"
           /\ ~deleg.request.some
           /\ ~deleg.result.some

\* C15 (as claimed): the delegated token of every DelegationResult has the
\* parent's plan_hash and the parent's step_proofs, whatever the service
\* answered.
C15_PlanCommitmentInherited ==
    deleg.result.some
        => /\ deleg.result.val.plan_hash = deleg.intent_token.plan_hash
           /\ deleg.result.val.step_proofs = deleg.intent_token.step_proofs

\* C16 (as claimed): after a successful delegate with allowed_actions = [B],
\* B a step of the parent's plan, a call of invoke for B made with the
\* delegated token before it expires sends the request for B, and a call for
\* an action other than B sends none.
C16_DelegateInvokesNarrowedScope ==
    (/\ deleg.result.some /\ deleg.handed
     /\ deleg.allowed_actions = Some(<<"B">>)
     /\ "B" \in TokenActions(deleg.intent_token)
     /\ last.called /\ last.at <= tok.expires_at)
        => /\ last.action = "B"
                => (last.request.some /\ last.request.val.action = "B")
           /\ last.action # "B" => ~last.request.some

\* C17 (as claimed): when the endpoint answers with an HTTP error status or
\* with a body that has no usable delegation, or the transport fails,
\* delegate raises DelegationException and returns no DelegationResult.
C17_FailuresRaiseDelegationException ==
    (deleg.called /\ deleg.answer # "delegation")
        => (deleg.outcome = "DelegationException" /\ ~deleg.result.some)

(***************************************************************************)
(* client.py: ArmorIQClient.verify_token                                   *)
(***************************************************************************)
\* The tokens verify_token is called with: issued for the plan [A, B, C],
\* with or without a signature, with or without a plan_hash.
VerifyTokens ==
    { [t EXCEPT !.signature = sg, !.plan_hash = ph] :
        t \in {u \in IntentTokens : u.steps = PlanABC /\ ~u.allowed_tools.some
                                    /\ u.step_proofs = <<>>},
        sg \in {"sig", ""}, ph \in {"hash-ABC", ""} }

\* Lines 947-964: the value verify_token returns, a Python bool.  Expiry is
\* tested first, then the signature and plan_hash fields.
verify_token(intent_token, t) ==
    IF IsExpired(intent_token, t) THEN "False"
    ELSE IF intent_token.signature = "" \/ intent_token.plan_hash = "" THEN "False"
    ELSE "True"

NoVerification == [ called |-> FALSE, token |-> <<>>, at |-> 0, result |-> "none" ]

\* One call of verify_token; the call before it is kept for comparison.
VerifyToken(intent_token) ==
    /\ verdict' = [ last |-> [ called |-> TRUE, token |-> intent_token, at |-> now,
                               result |-> verify_token(intent_token, now) ],
                    prev |-> verdict.last ]
    /\ UNCHANGED <<now, tok, last, prev, deleg>>

InitVerify ==
    /\ now = 0
    /\ verdict = [ last |-> NoVerification, prev |-> NoVerification ]
    /\ tok = <<>> /\ last = <<>> /\ prev = <<>> /\ deleg = <<>>
    /\ ExtraIdle
    /\ TokenIdle
    /\ MerkleIdle

NextVerify ==
    \/ \E intent_token \in VerifyTokens :
         VerifyToken(intent_token) /\ UNCHANGED <<tokenVars, merkleVars, extraVars>>
    \/ Tick /\ UNCHANGED <<tokenVars, merkleVars, delegVars, extraVars>>

SpecVerify == InitVerify /\ [][NextVerify]_vars

(***************************************************************************)
(* Claims about verify_token, checked under SpecVerify.                    *)
(***************************************************************************)
\* The verify_token calls in view: the last one and the one before it.
Verifications == {c \in {verdict.last, verdict.prev} : c.called}

\* C19 (as claimed): what verify_token reports tells an expired token from
\* one without a signature, the signature being judged first: the result for
\* a signed token that has expired differs from the result for a token
\* without signature, expired or not.
C19_VerificationNamesTheFailure ==
    \A c, d \in Verifications :
        (/\ c.token.signature # "" /\ c.token.plan_hash # ""
         /\ c.at > c.token.expires_at
         /\ d.token.signature = "")
            => c.result # d.result

(***************************************************************************)
(* client.py: ArmorIQClient.invoke and the params mapping it is given;     *)
(* models.py: the frozen IntentToken.  Mappings are objects in memory:     *)
(* objs[0] is a mapping the caller built, objs[i] for i >= 1 is the        *)
(* mapping raw_token["plan"]["steps"][i-1]["params"] of the held token.    *)
(***************************************************************************)
\* A mapping: its one ordinary key, and the "_iam_context" key.
EmptyMapping == [ has_key |-> FALSE, val |-> 0, has_iam |-> FALSE, iam |-> NoTools ]
Mapping(v)   == [ has_key |-> TRUE, val |-> v, has_iam |-> FALSE, iam |-> NoTools ]

\* The params of the steps of the plan, as the mappings they are.
PlanObjs(token) == [i \in 1..Len(token.steps) |-> Mapping(token.steps[i].params)]

\* The params argument: None, the caller's own mapping, or the mapping of
\* the plan's second step taken from token.raw_token.
ParamRefs == {NoValue, Some(0), Some(2)}

\* The mapping as the model of invoke sees it: the value of its ordinary key.
ParamsOf(ref) ==
    IF ref.some /\ objs[ref.val].has_key THEN Some(objs[ref.val].val) ELSE NoValue

\* Lines 558-559: invoke_params = params or {} is the caller's mapping itself
\* unless that is None or empty, and "_iam_context" is written into it.
WriteIamContext(ref, token) ==
    IF ref.some /\ (objs[ref.val].has_key \/ objs[ref.val].has_iam)
    THEN [objs EXCEPT ![ref.val].has_iam = TRUE, ![ref.val].iam = IamContext(token)]
    ELSE objs

\* Lines 524-530: the expiry gate raises before params is touched.
InvokeRefExpired(ref, action) ==
    /\ InvokeExpired(action, ParamsOf(ref), None)
    /\ objs' = objs

\* Lines 542-619: "_iam_context" is written, then the plan gate raises.
InvokeRefNotInPlan(ref, action) ==
    /\ InvokeNotInPlan(action, ParamsOf(ref), None)
    /\ objs' = WriteIamContext(ref, tok)

\* Lines 542-793: "_iam_context" is written and the request is sent.
InvokeRefSend(ref, action, response) ==
    /\ InvokeSend(action, ParamsOf(ref), None, response)
    /\ objs' = WriteIamContext(ref, tok)

\* models.py line 30: model_config = ConfigDict(frozen=True).  An assignment
\* to a field of the token raises and assigns nothing.
TokenFields == {"expires_at", "plan_hash", "signature"}

NoAssignment == [ called |-> FALSE, field |-> "", outcome |-> "none" ]

SetAttr(field) ==
    /\ assign' = [ called |-> TRUE, field |-> field, outcome |-> "ValidationError" ]
    /\ UNCHANGED <<now, tok, last, prev, objs>>

\* The tokens held under SpecParams: issued for the plan [A, B, C].
ParamTokens == {t \in IntentTokens : t.steps = PlanABC /\ t.step_proofs = <<>>}

ParamActions   == {"B", "D"}
ParamResponses == {"200"}

InitParams ==
    /\ now = 0
    /\ tok \in ParamTokens
    /\ last = NoCall
    /\ prev = NoRequest
    /\ \E own \in {EmptyMapping, Mapping(1), Mapping(2)} :
         objs = (0 :> own) @@ PlanObjs(tok)
    /\ assign = NoAssignment
    /\ verdict = [ last |-> NoVerification, prev |-> NoVerification ]
    /\ deleg = NoDelegation
    /\ ctor = <<>> /\ run = <<>> /\ expiry = <<>>
    /\ TokenIdle
    /\ MerkleIdle

NextParams ==
    \/ \E ref \in ParamRefs, action \in ParamActions :
         InvokeRefExpired(ref, action)
            /\ UNCHANGED <<tokenVars, merkleVars, delegVars, assign, ctor, run, expiry>>
    \/ \E ref \in ParamRefs, action \in ParamActions :
         InvokeRefNotInPlan(ref, action)
            /\ UNCHANGED <<tokenVars, merkleVars, delegVars, assign, ctor, run, expiry>>
    \/ \E ref \in ParamRefs, action \in ParamActions, response \in ParamResponses :
         InvokeRefSend(ref, action, response)
            /\ UNCHANGED <<tokenVars, merkleVars, delegVars, assign, ctor, run, expiry>>
    \/ \E answer \in {[kind |-> "delegation",
                       data |-> FullData(DelegationPayload(tok, 1, None))],
                      [kind |-> "transport", data |-> NoData]} :
         Delegate(None, 1, answer)
            /\ UNCHANGED <<tokenVars, merkleVars, verdict, objs, assign, ctor, run, expiry>>
    \/ VerifyToken(tok)
            /\ UNCHANGED <<tokenVars, merkleVars, objs, assign, ctor, run, expiry>>
    \/ \E field \in TokenFields :
         SetAttr(field) /\ UNCHANGED <<tokenVars, merkleVars, delegVars, ctor, run, expiry>>
    \/ Tick /\ UNCHANGED <<tokenVars, merkleVars, delegVars, extraVars>>

SpecParams == InitParams /\ [][NextParams]_vars

(***************************************************************************)
(* Claims about the token and the params mapping, checked under SpecParams.*)
(***************************************************************************)
\* C21 (as claimed): no step changes the token: an assignment to one of its
\* fields raises and leaves it as it was, and invoke, delegate and
\* verify_token, returning or raising, leave every field and every mapping
\* inside raw_token as they were.
C21_TokenNeverChanges ==
    [][ /\ tok' = tok
        /\ \A i \in 1..Len(tok.steps) : objs'[i] = objs[i]
        /\ assign' # assign => assign'.outcome = "ValidationError" ]_vars

\* C30 (as claimed): invoke leaves the mapping the caller built and passed
\* as params as it was: after any invoke call, returning or raising, the
\* mapping holds no "_iam_context" key it did not hold before.
C30_CallerParamsUnchanged ==
    [][last' # last => objs'[0] = objs[0]]_vars

(***************************************************************************)
(* models.py: IntentToken.is_expired and time_until_expiry, read while the *)
(* clock runs, with the two operations that refuse an expired token.       *)
(***************************************************************************)
NoReading == [ called |-> FALSE, at |-> 0, is_expired |-> FALSE, time_until_expiry |-> 0 ]

\* Lines 50-58 of models.py: both properties read against the same clock.
ReadExpiry ==
    /\ expiry' = [ called |-> TRUE, at |-> now,
                   is_expired |-> IsExpired(tok, now),
                   time_until_expiry |-> TimeUntilExpiry(tok, now) ]
    /\ UNCHANGED <<now, tok, last, prev, verdict>>

\* The tokens held under SpecExpiry: signed, for the plan [A, B, C].
ExpiryTokens == {t \in IntentTokens : t.steps = PlanABC}

ExpiryActions   == {"B", "D"}
ExpiryResponses == {"200", "401"}

InitExpiry ==
    /\ now = 0
    /\ tok \in ExpiryTokens
    /\ last = NoCall
    /\ prev = NoRequest
    /\ verdict = [ last |-> NoVerification, prev |-> NoVerification ]
    /\ expiry = NoReading
    /\ deleg = <<>>
    /\ objs = <<>> /\ assign = <<>> /\ ctor = <<>> /\ run = <<>>
    /\ TokenIdle
    /\ MerkleIdle

NextExpiry ==
    \/ ReadExpiry
          /\ UNCHANGED <<tokenVars, merkleVars, deleg, objs, assign, ctor, run>>
    \/ \E action \in ExpiryActions, params \in CallerParams :
         InvokeExpired(action, params, None)
            /\ UNCHANGED <<tokenVars, merkleVars, delegVars, extraVars>>
    \/ \E action \in ExpiryActions, params \in CallerParams :
         InvokeNotInPlan(action, params, None)
            /\ UNCHANGED <<tokenVars, merkleVars, delegVars, extraVars>>
    \/ \E action \in ExpiryActions, params \in CallerParams, response \in ExpiryResponses :
         InvokeSend(action, params, None, response)
            /\ UNCHANGED <<tokenVars, merkleVars, delegVars, extraVars>>
    \/ VerifyToken(tok) /\ UNCHANGED <<tokenVars, merkleVars, extraVars>>
    \/ Tick /\ UNCHANGED <<tokenVars, merkleVars, delegVars, extraVars>>

SpecExpiry == InitExpiry /\ [][NextExpiry]_vars

\* C22: a token is reported expired exactly when the clock has passed
\* expires_at (not yet at now = expires_at), a reading that says expired has
\* a negative time_until_expiry, and with a clock that never runs backwards
\* a token once reported expired is reported expired by every later reading
\* and is refused by every later invoke and verify_token.
C22_ExpiredStaysExpired ==
    /\ [](expiry.called =>
            /\ expiry.is_expired <=> expiry.at > tok.expires_at
            /\ expiry.is_expired => expiry.time_until_expiry < 0)
    /\ [][ (expiry.called /\ expiry.is_expired) =>
             /\ expiry' # expiry => expiry'.is_expired
             /\ last' # last =>
                  (last'.outcome = "TokenExpiredException" /\ ~last'.request.some)
             /\ verdict' # verdict => verdict'.last.result = "False" ]_vars

\* An expired reading, a later reading, and both operations refusing after it;
\* the token was still valid when read at now = expires_at.
C22_Witness ==
    /\ expiry.called /\ expiry.is_expired /\ expiry.at > tok.expires_at
    /\ last.called /\ last.at = expiry.at /\ last.outcome = "TokenExpiredException"
    /\ verdict.last.called /\ verdict.last.at = expiry.at /\ verdict.last.result = "False"
    /\ verdict.prev.called /\ verdict.prev.at = tok.expires_at /\ verdict.prev.result = "True"

(***************************************************************************)
(* client.py: ArmorIQClient.__init__ and _validate_api_key.  A string is   *)
(* the sequence of its parts; None is NoString.                            *)
(***************************************************************************)
NoString == [some |-> FALSE, val |-> <<>>]

\* Python's `a or b` on optional strings: a unless it is None or empty.
OrElse(a, b) == IF a.some /\ a.val # <<>> THEN a ELSE b

\* Python's `not s`.
Falsy(s) == ~s.some \/ s.val = <<>>

\* str.startswith.
StartsWith(str, prefix) == Len(str) >= 1 /\ str[1] = prefix

\* The api_key argument and the ARMORIQ_API_KEY variable.
ApiKeys == {NoString, Some(<<>>), Some(<<"ak_live_", "k1">>), Some(<<"ak_test_", "k1">>),
            Some(<<"sk_live_", "k1">>), Some(<<"AK_LIVE_", "k1">>)}
EnvApiKeys == {NoString, Some(<<"ak_test_", "k2">>), Some(<<"ak_", "live_k2">>)}

\* The user_id and agent_id arguments, and the USER_ID and AGENT_ID variables.
Ids == {NoString, Some(<<"id">>)}

\* What GET {proxy}/health answers during construction.
HealthAnswers == {"200", "401", "500", "connect-error", "timeout"}

\* Mutant of lines 208-225: the format of the API key is not looked at.
ValidateConfigNoFormat(api_key, user_id, agent_id) ==
    IF Falsy(api_key) THEN "API key is required"
    ELSE IF Falsy(user_id) THEN "user_id is required"
    ELSE IF Falsy(agent_id) THEN "agent_id is required"
    ELSE ""

\* Lines 208-225: the message of the ConfigurationException raised, "" when
\* none is.
ValidateConfig(api_key, user_id, agent_id) ==
    IF Falsy(api_key) THEN "API key is required"
    ELSE IF ~(StartsWith(api_key.val, "ak_live_") \/ StartsWith(api_key.val, "ak_test_"))
         THEN "Invalid API key format"
    ELSE IF Falsy(user_id) THEN "user_id is required"
    ELSE IF Falsy(agent_id) THEN "agent_id is required"
    ELSE ""

\* Lines 262-290: the message of the ConfigurationException _validate_api_key
\* raises, "" when it only logs.
ValidateApiKey(answer) == IF answer = "401" THEN "Invalid API key" ELSE ""

NoConstruction ==
    [ called |-> FALSE, api_key |-> NoString, user_id |-> NoString, agent_id |-> NoString,
      outcome |-> "none", message |-> "", http_client |-> FALSE, health_request |-> FALSE ]

\* Lines 140-256: one ArmorIQClient(...) call, with the environment as it is.
Construct(api_key, user_id, agent_id, answer) ==
    LET key     == OrElse(api_key, ctor.env.ARMORIQ_API_KEY)
        uid     == OrElse(user_id, ctor.env.USER_ID)
        aid     == OrElse(agent_id, ctor.env.AGENT_ID)
        invalid == ValidateConfig(key, uid, aid)
        denied  == ValidateApiKey(answer)
        message == IF invalid # "" THEN invalid ELSE denied
    IN  ctor' = [ctor EXCEPT !.last =
                   [ called |-> TRUE, api_key |-> api_key, user_id |-> user_id,
                     agent_id |-> agent_id,
                     outcome |-> IF message = "" THEN "ArmorIQClient"
                                 ELSE "ConfigurationException",
                     message |-> message,
                     http_client |-> invalid = "",
                     health_request |-> invalid = "" ]]

InitConstruct ==
    /\ \E k \in EnvApiKeys, u \in Ids, a \in Ids :
         ctor = [ env  |-> [ARMORIQ_API_KEY |-> k, USER_ID |-> u, AGENT_ID |-> a],
                  last |-> NoConstruction ]
    /\ objs = <<>> /\ assign = <<>> /\ run = <<>> /\ expiry = <<>>
    /\ InvokeIdle
    /\ TokenIdle
    /\ MerkleIdle
    /\ DelegIdle

NextConstruct ==
    \E api_key \in ApiKeys, user_id \in Ids, agent_id \in Ids, answer \in HealthAnswers :
       Construct(api_key, user_id, agent_id, answer)
          /\ UNCHANGED <<invokeVars, tokenVars, merkleVars, delegVars,
                         objs, assign, run, expiry>>

SpecConstruct == InitConstruct /\ [][NextConstruct]_vars

(***************************************************************************)
(* Claims about construction, checked under SpecConstruct.                 *)
(***************************************************************************)
\* The configuration a call resolved: argument first, environment second.
Resolved(arg, env) == IF arg.some /\ arg.val # <<>> THEN arg ELSE env

KeyAbsent == Falsy(Resolved(ctor.last.api_key, ctor.env.ARMORIQ_API_KEY))
KeyWellFormed ==
    /\ ~KeyAbsent
    /\ Resolved(ctor.last.api_key, ctor.env.ARMORIQ_API_KEY).val[1] \in {"ak_live_", "ak_test_"}
UserAbsent  == Falsy(Resolved(ctor.last.user_id, ctor.env.USER_ID))
AgentAbsent == Falsy(Resolved(ctor.last.agent_id, ctor.env.AGENT_ID))

Refused ==
    /\ ctor.last.outcome = "ConfigurationException"
    /\ ~ctor.last.http_client
    /\ ~ctor.last.health_request

MaxPlanLen == 3

Tools == {"get_weather", "get_time"}
Goals == {"g1", "g2"}

\* models.py: Plan(goal, actions); an action is reduced to its tool.
PlanInputs ==
    [goal : Goals, actions : UNION {[1..n -> Tools] : n \in 0..MaxPlanLen}]

\* What POST {iap}/token/issue answers.
IssueAnswers == {"200", "401", "500", "timeout", "connection-error"}

\* Lines 156-228: how get_token ends for each answer.
GetToken(answer) ==
    CASE answer = "200" -> "Token"
      [] answer = "401" -> "AuthenticationError"
      [] answer \in {"timeout", "connection-error"} -> "NetworkError"
      [] OTHER -> "PlanError"

\* Lines 338-347: the loop over plan.actions raises in its first pass; the
\* list is returned only when the loop has nothing to pass over.  The
\* result holds how the call ended, the list it returned, and the tools it
\* called, in order.
ExecuteLoop(acts) ==
    IF Len(acts) > 0
    THEN [ outcome |-> "NotImplementedError", results |-> <<>>, called |-> <<>> ]
    ELSE [ outcome |-> "list", results |-> <<>>, called |-> <<>> ]

NoRun == [ started |-> FALSE, plan |-> [goal |-> "g1", actions |-> <<>>],
           outcome |-> "none", results |-> <<>>, called |-> <<>> ]

\* Lines 317-347: one execute_plan call.
ExecutePlan(plan, answer) ==
    LET token == GetToken(answer)
        loop  == IF token = "Token" THEN ExecuteLoop(plan.actions)
                 ELSE [ outcome |-> token, results |-> <<>>, called |-> <<>> ]
    IN  run' = [ started |-> TRUE, plan |-> plan, outcome |-> loop.outcome,
                 results |-> loop.results, called |-> loop.called ]

InitPlan ==
    /\ run = NoRun
    /\ objs = <<>> /\ assign = <<>> /\ ctor = <<>> /\ expiry = <<>>
    /\ InvokeIdle
    /\ TokenIdle
    /\ MerkleIdle
    /\ DelegIdle

NextPlan ==
    \E plan \in PlanInputs, answer \in IssueAnswers :
       ExecutePlan(plan, answer)
          /\ UNCHANGED <<invokeVars, tokenVars, merkleVars, delegVars,
                         objs, assign, ctor, expiry>>

SpecPlan == InitPlan /\ [][NextPlan]_vars

\* C25 (as claimed): when a token is issued for the plan, execute_plan calls
\* the tool of every action, in plan order, and returns a list with one
\* ToolResult per action.
C25_OneResultPerAction ==
    (run.started /\ run.outcome \notin {"AuthenticationError", "NetworkError", "PlanError"})
        => /\ run.outcome = "list"
           /\ run.called = run.plan.actions
           /\ Len(run.results) = Len(run.plan.actions)

====
